---------------------------- MODULE Spec2Model ----------------------------
(***************************************************************************)
(* Notification-channel integration layer of the DRR backend: the four     *)
(* integration stores (Slack, Discord, Telegram, Teams) and the router     *)
(* handlers that drive them.                                               *)
(*                                                                         *)
(* The four platform tables are independent: no handler reads or writes    *)
(* two of them.  A behaviour therefore follows ONE table, chosen in Init   *)
(* (variable plat); every property below is stated for the table that is   *)
(* followed and is checked for each of the four.                           *)
(*                                                                         *)
(* The database is assumed available: connection failures are not          *)
(* modelled.  Constraint violations and MultipleResultsFound are.          *)
(***************************************************************************)
EXTENDS Naturals, Integers, Sequences, FiniteSets, TLC

VARIABLES
    plat,     \* the platform table this behaviour follows
    db,       \* rows of that table (set of row records, ids unique)
    nextId,   \* next AUTO_INCREMENT id of the table
    last,     \* the last completed call: operation, arguments, response
    calls,    \* in-flight create calls of the two concurrent requests
    out,      \* the last call's exchange with the platform and what it listed
    issued    \* the OAuth states GET /oauth/url has handed out so far

vars == <<plat, db, nextId, last, calls, out, issued>>

----------------------------------------------------------------------------
(* Bounds and value domains                                                *)

MaxRows == 2

Platforms == {"slack", "discord", "telegram", "teams"}
Users == {"u1", "u2"}
ExtIds == {"x1"}
Containers == {"g1"}
Channels == {"c1"}
NULL == "NULL"
Procs == {1, 2}

St_DISABLED == "DISABLED"
St_ENABLED == "ENABLED"
St_ACTIVE == "ACTIVE"
Statuses == {St_DISABLED, St_ENABLED, St_ACTIVE}

\* Python's None for "no row found"
NoRow == [id |-> 0, user |-> NULL, container |-> NULL, channel |-> NULL,
          ext |-> NULL, kind |-> NULL, status |-> St_DISABLED, deleted |-> FALSE]

Ids(rows) == {r.id : r \in rows}

RowById(rows, id) ==
    IF \E r \in rows : r.id = id
    THEN CHOOSE r \in rows : r.id = id
    ELSE NoRow

----------------------------------------------------------------------------
(* Integration Store                                                       *)

\* Result.scalar_one_or_none() inside a getter that catches SQLAlchemyError:
\* no row -> None, one row -> the row, several rows -> MultipleResultsFound,
\* which the getter's except clause turns into None.
ScalarOneOrNone(S) ==
    IF Cardinality(S) = 1 THEN CHOOSE r \in S : TRUE ELSE NoRow

\* WHERE clause of the natural-key lookups.  Telegram has no container
\* column; Discord and Teams compare NULL keys with IS NULL.
KeyMatch(p, r, u, g, c) ==
    /\ r.user = u
    /\ (p # "telegram" => r.container = g)
    /\ r.channel = c

get_by_user_workspace_channel(rows, u, g, c, include_deleted) ==
    ScalarOneOrNone({r \in rows : /\ KeyMatch("slack", r, u, g, c)
                                  /\ (include_deleted \/ ~r.deleted)})

get_by_user_guild_channel(rows, u, g, c, include_deleted) ==
    ScalarOneOrNone({r \in rows : /\ KeyMatch("discord", r, u, g, c)
                                  /\ (include_deleted \/ ~r.deleted)})

get_by_user_and_chat(rows, u, c, include_deleted) ==
    ScalarOneOrNone({r \in rows : /\ KeyMatch("telegram", r, u, NULL, c)
                                  /\ (include_deleted \/ ~r.deleted)})

get_by_user_team_channel(rows, u, g, c, include_deleted) ==
    ScalarOneOrNone({r \in rows : /\ KeyMatch("teams", r, u, g, c)
                                  /\ (include_deleted \/ ~r.deleted)})

\* FindExisting with include_deleted left at its default (False)
FindExistingSkipsDeleted(p, rows, u, g, c) ==
    CASE p = "slack"    -> get_by_user_workspace_channel(rows, u, g, c, FALSE)
      [] p = "discord"  -> get_by_user_guild_channel(rows, u, g, c, FALSE)
      [] p = "telegram" -> get_by_user_and_chat(rows, u, c, FALSE)
      [] p = "teams"    -> get_by_user_team_channel(rows, u, g, c, FALSE)

FindExisting(p, rows, u, g, c) ==
    CASE p = "slack"    -> get_by_user_workspace_channel(rows, u, g, c, TRUE)
      [] p = "discord"  -> get_by_user_guild_channel(rows, u, g, c, TRUE)
      [] p = "telegram" -> get_by_user_and_chat(rows, u, c, TRUE)
      [] p = "teams"    -> get_by_user_team_channel(rows, u, g, c, TRUE)

\* a primary-key lookup that does not filter on deleted_at
get_by_id_any(rows, id) ==
    ScalarOneOrNone({r \in rows : r.id = id})

\* get_by_id: primary-key lookup restricted to non-deleted rows
get_by_id(rows, id) ==
    ScalarOneOrNone({r \in rows : r.id = id /\ ~r.deleted})

\* uq_user_guild_channel / uq_user_team_channel.  MySQL does not compare
\* NULLs in a unique index, so only fully non-NULL keys are constrained.
\* The slack and telegram tables carry no unique constraint.
UniqueViolation(p, rows, id, u, g, c) ==
    /\ p \in {"discord", "teams"}
    /\ g # NULL
    /\ c # NULL
    /\ \E r \in rows : r.id # id /\ r.user = u /\ r.container = g /\ r.channel = c

\* The "if existing:" branch of create_*_integration: the fields it assigns.
\* Slack and Telegram overwrite the external user id, Telegram also the chat
\* type; Discord and Teams leave the external user id as stored.
UpdateExisting(p, r, ext, kind, status) ==
    CASE p = "slack"    -> [r EXCEPT !.ext = ext, !.status = status, !.deleted = FALSE]
      [] p = "discord"  -> [r EXCEPT !.status = status, !.deleted = FALSE]
      [] p = "telegram" -> [r EXCEPT !.ext = ext, !.kind = kind,
                                     !.status = status, !.deleted = FALSE]
      [] p = "teams"    -> [r EXCEPT !.status = status, !.deleted = FALSE]

NewRow(id, u, g, c, ext, kind, status) ==
    [id |-> id, user |-> u, container |-> g, channel |-> c,
     ext |-> ext, kind |-> kind, status |-> status, deleted |-> FALSE]

\* create_integration without its lookup: every call inserts
create_integration_always_inserts(p, rows, nid, u, g, c, ext, kind, status) ==
    IF UniqueViolation(p, rows, 0, u, g, c)
    THEN [rows |-> rows, nid |-> nid, id |-> 0, res |-> "raised"]
    ELSE [rows |-> rows \cup {NewRow(nid, u, g, c, ext, kind, status)},
          nid  |-> nid + 1, id |-> nid, res |-> "inserted"]

\* create_slack_integration / create_discord_integration /
\* create_telegram_integration / create_teams_integration:
\* lookup including soft-deleted rows, then update-and-reactivate or insert.
\* Result: the table, the AUTO_INCREMENT counter, the id returned
\* (0 when the call raised) and what happened.
create_integration(p, rows, nid, u, g, c, ext, kind, status) ==
    LET existing == FindExisting(p, rows, u, g, c) IN
    IF existing.id # 0
    THEN [rows |-> (rows \ {existing}) \cup {UpdateExisting(p, existing, ext, kind, status)},
          nid  |-> nid, id |-> existing.id, res |-> "updated"]
    ELSE IF UniqueViolation(p, rows, 0, u, g, c)
    THEN [rows |-> rows, nid |-> nid, id |-> 0, res |-> "raised"]
    ELSE [rows |-> rows \cup {NewRow(nid, u, g, c, ext, kind, status)},
          nid  |-> nid + 1, id |-> nid, res |-> "inserted"]

\* update_status: load the non-deleted row by id, set its status
update_status(rows, id, status) ==
    LET entity == get_by_id(rows, id) IN
    IF entity.id = 0
    THEN [rows |-> rows, ok |-> FALSE]
    ELSE [rows |-> (rows \ {entity}) \cup {[entity EXCEPT !.status = status]},
          ok   |-> TRUE]

\* delete: load the non-deleted row by id, stamp deleted_at.  The Slack,
\* Discord and Telegram stores also set the status to DISABLED; the Teams
\* store leaves the status as it was.
delete(p, rows, id) ==
    LET entity == get_by_id(rows, id) IN
    IF entity.id = 0
    THEN [rows |-> rows, ok |-> FALSE]
    ELSE [rows |-> (rows \ {entity}) \cup
                   {IF p = "teams"
                    THEN [entity EXCEPT !.deleted = TRUE]
                    ELSE [entity EXCEPT !.deleted = TRUE, !.status = St_DISABLED]},
          ok   |-> TRUE]

----------------------------------------------------------------------------
(* State                                                                   *)

NoKey == <<NULL, NULL, NULL>>

\* last.was: what the row (or the rows of the tuple) addressed by the call
\* looked like when the call started
WasOf(r) ==
    IF r.id = 0 THEN "absent" ELSE IF r.deleted THEN "deleted" ELSE r.status

RowsOf(rows, key) ==
    {r \in rows : r.user = key[1] /\ r.container = key[2] /\ r.channel = key[3]}

LiveRowsOf(rows, key) == {r \in RowsOf(rows, key) : ~r.deleted}

WasOfKey(rows, key) ==
    IF RowsOf(rows, key) = {} THEN "absent"
    ELSE IF Cardinality(RowsOf(rows, key)) > 1 THEN "many"
    ELSE WasOf(CHOOSE r \in RowsOf(rows, key) : TRUE)

NoCall == [op |-> "none", user |-> NULL, id |-> 0, key |-> NoKey,
           res |-> "none", note |-> "none", was |-> "absent"]

\* what Discord holds when GET /discord/available-guilds is called: the
\* guild ids in the user's stored list, the guilds the bot is in, and the
\* channels of those guilds with their type
NoReport == [user_guilds |-> {}, bot_guilds |-> {}, channels |-> {}]

\* out.sent: the outbound platform calls the handler made; out.listed: the
\* (container, channel) pairs a discovery handler returned; out.skew: the
\* timestamp distance (seconds) a signature check was run on; out.reported:
\* what the platform held for a guild discovery
NoOut == [sent |-> {}, listed |-> {}, skew |-> 0, reported |-> NoReport]

Idle == [pc |-> "idle", user |-> NULL, container |-> NULL, channel |-> NULL,
         ext |-> NULL, kind |-> NULL, found |-> NoRow]

\* Arguments a caller can pass to create_*_integration for platform p.
\* Slack: a workspace row, the DM being the row whose channel is the Slack
\* user id.  Discord: DM rows have no guild.  Telegram: private chats have
\* the chat id of the Telegram user, groups carry no Telegram user.
\* Teams: the DM row has neither team nor channel.
CreateArgs(p) ==
    CASE p = "slack" ->
           {[user |-> u, container |-> g, channel |-> c, ext |-> x, kind |-> NULL] :
              u \in Users, g \in Containers, c \in ExtIds \cup Channels, x \in ExtIds}
      [] p = "discord" ->
           {[user |-> u, container |-> NULL, channel |-> x, ext |-> x, kind |-> NULL] :
              u \in Users, x \in ExtIds}
           \cup
           {[user |-> u, container |-> g, channel |-> c, ext |-> x, kind |-> NULL] :
              u \in Users, g \in Containers, c \in Channels, x \in ExtIds}
      [] p = "telegram" ->
           {[user |-> u, container |-> NULL, channel |-> x, ext |-> x, kind |-> "private"] :
              u \in Users, x \in ExtIds}
           \cup
           {[user |-> u, container |-> NULL, channel |-> c, ext |-> NULL, kind |-> "group"] :
              u \in Users, c \in Channels}
      [] p = "teams" ->
           {[user |-> u, container |-> NULL, channel |-> NULL, ext |-> x, kind |-> NULL] :
              u \in Users, x \in ExtIds}
           \cup
           {[user |-> u, container |-> g, channel |-> c, ext |-> x, kind |-> NULL] :
              u \in Users, g \in Containers, c \in Channels, x \in ExtIds}

\* Tables the service starts on.  The Discord OAuth callback of this revision
\* cannot store a row (see oauth_callback below), so a Discord table is
\* either empty or holds a DM row stored by create_discord_integration
\* before the process started.
SeedTables(p) ==
    IF p = "discord"
    THEN {{}} \cup {{NewRow(1, u, NULL, x, x, NULL, St_ENABLED)} : u \in Users, x \in ExtIds}
    ELSE {{}}

Init ==
    /\ plat \in Platforms
    /\ db \in SeedTables(plat)
    /\ nextId = Cardinality(db) + 1
    /\ last = NoCall
    /\ calls = [i \in Procs |-> Idle]
    /\ out = NoOut
    /\ issued = {}

----------------------------------------------------------------------------
(* Store operations called one at a time                                   *)

StoreCreate(a, status) ==
    LET r == create_integration(plat, db, nextId, a.user, a.container, a.channel,
                                a.ext, a.kind, status) IN
    /\ r.nid <= MaxRows + 1
    /\ db' = r.rows
    /\ nextId' = r.nid
    /\ last' = [op |-> "create", user |-> a.user, id |-> r.id,
                key |-> <<a.user, a.container, a.channel>>,
                res |-> r.res, note |-> status,
                was |-> WasOfKey(db, <<a.user, a.container, a.channel>>)]
    /\ UNCHANGED <<plat, calls, out, issued>>

StoreUpdateStatus(id, status) ==
    LET r == update_status(db, id, status) IN
    /\ db' = r.rows
    /\ last' = [op |-> "update_status", user |-> NULL, id |-> id, key |-> NoKey,
                res |-> IF r.ok THEN "ok" ELSE "none", note |-> status,
                was |-> WasOf(RowById(db, id))]
    /\ UNCHANGED <<plat, nextId, calls, out, issued>>

StoreDelete(id) ==
    LET r == delete(plat, db, id) IN
    /\ db' = r.rows
    /\ last' = [op |-> "delete", user |-> NULL, id |-> id, key |-> NoKey,
                res |-> IF r.ok THEN "ok" ELSE "none", note |-> "none",
                was |-> WasOf(RowById(db, id))]
    /\ UNCHANGED <<plat, nextId, calls, out, issued>>

NextStore ==
    \/ \E a \in CreateArgs(plat), s \in Statuses : StoreCreate(a, s)
    \/ \E id \in 1..MaxRows, s \in Statuses : StoreUpdateStatus(id, s)
    \/ \E id \in 1..MaxRows : StoreDelete(id)

SpecStore == Init /\ [][NextStore]_vars

----------------------------------------------------------------------------
(* Two requests running create_*_integration concurrently.  Each request   *)
(* has its own session: its SELECT sees what is committed at that moment,  *)
(* its commit writes the attributes it changed on the loaded entity, or    *)
(* inserts the new row.                                                    *)

\* first step of create_*_integration: the lookup
RaceLookup(i, a) ==
    /\ calls[i].pc = "idle"
    /\ calls' = [calls EXCEPT ![i] =
                   [pc |-> "looked", user |-> a.user, container |-> a.container,
                    channel |-> a.channel, ext |-> a.ext, kind |-> a.kind,
                    found |-> FindExisting(plat, db, a.user, a.container, a.channel)]]
    /\ UNCHANGED <<plat, db, nextId, last, out, issued>>

\* The UPDATE the session flushes for the loaded entity: the assigned
\* attributes whose value differs from the loaded one, applied to the row
\* as it is now.
FlushUpdate(p, cur, loaded, ext, kind, status) ==
    LET want == UpdateExisting(p, loaded, ext, kind, status) IN
    [cur EXCEPT !.ext     = IF want.ext # loaded.ext THEN want.ext ELSE @,
                !.kind    = IF want.kind # loaded.kind THEN want.kind ELSE @,
                !.status  = IF want.status # loaded.status THEN want.status ELSE @,
                !.deleted = IF want.deleted # loaded.deleted THEN want.deleted ELSE @]

\* second step of create_*_integration: assign-and-commit or add-and-commit
RaceCommit(i) ==
    LET c == calls[i]
        key == <<c.user, c.container, c.channel>>
        cur == RowById(db, c.found.id)
    IN
    /\ c.pc = "looked"
    /\ IF c.found.id # 0
       THEN /\ db' = (db \ {cur}) \cup {FlushUpdate(plat, cur, c.found, c.ext, c.kind, St_ENABLED)}
            /\ nextId' = nextId
            /\ last' = [op |-> "create_concurrent", user |-> c.user, id |-> c.found.id,
                        key |-> key, res |-> "updated", note |-> St_ENABLED,
                        was |-> WasOfKey(db, key)]
       ELSE IF UniqueViolation(plat, db, 0, c.user, c.container, c.channel)
       THEN /\ UNCHANGED <<db, nextId>>
            /\ last' = [op |-> "create_concurrent", user |-> c.user, id |-> 0,
                        key |-> key, res |-> "raised", note |-> St_ENABLED,
                        was |-> WasOfKey(db, key)]
       ELSE /\ nextId <= MaxRows
            /\ db' = db \cup {NewRow(nextId, c.user, c.container, c.channel,
                                     c.ext, c.kind, St_ENABLED)}
            /\ nextId' = nextId + 1
            /\ last' = [op |-> "create_concurrent", user |-> c.user, id |-> nextId,
                        key |-> key, res |-> "inserted", note |-> St_ENABLED,
                        was |-> WasOfKey(db, key)]
    /\ calls' = [calls EXCEPT ![i] = Idle]
    /\ UNCHANGED <<plat, out, issued>>

NextRace ==
    \/ \E i \in Procs, a \in CreateArgs(plat) : RaceLookup(i, a)
    \/ \E i \in Procs : RaceCommit(i)

SpecRace == Init /\ [][NextRace]_vars

----------------------------------------------------------------------------
(* update_status and delete running concurrently, each in its own session:  *)
(* the SELECT of the non-deleted row is one step, the assignment and the    *)
(* commit the other.  No row is locked between the two.                     *)

StoreCalls == {"update_status", "delete"}

\* request 1 is the verify (update_status to ACTIVE), request 2 the delete
StoreCallOf(i) == IF i = 1 THEN "update_status" ELSE "delete"

\* first step of update_status / delete: load the non-deleted row
ConcurrentRead(i, id) ==
    /\ calls[i].pc = "idle"
    /\ calls' = [calls EXCEPT ![i] = [Idle EXCEPT !.pc = StoreCallOf(i),
                                                  !.found = get_by_id(db, id)]]
    /\ UNCHANGED <<plat, db, nextId, last, out, issued>>

\* the attributes the call assigns on the entity it loaded:
\* update_status(ACTIVE) the status, delete the marker and (except Teams)
\* the status
Assigned(p, op, loaded) ==
    IF op = "update_status" THEN [loaded EXCEPT !.status = St_ACTIVE]
    ELSE IF p = "teams" THEN [loaded EXCEPT !.deleted = TRUE]
    ELSE [loaded EXCEPT !.deleted = TRUE, !.status = St_DISABLED]

\* The UPDATE the commit flushes: the attributes whose assigned value
\* differs from the loaded one, written to the row as it is now.
FlushAssigned(cur, loaded, want) ==
    [cur EXCEPT !.status  = IF want.status # loaded.status THEN want.status ELSE @,
                !.deleted = IF want.deleted # loaded.deleted THEN want.deleted ELSE @]

\* second step: None / False when nothing was loaded, else assign and commit
ConcurrentCommit(i) ==
    LET c == calls[i]
        cur == RowById(db, c.found.id)
    IN
    /\ c.pc \in StoreCalls
    /\ db' = IF c.found.id = 0 THEN db
             ELSE (db \ {cur}) \cup {FlushAssigned(cur, c.found, Assigned(plat, c.pc, c.found))}
    /\ last' = [op |-> IF c.pc = "delete" THEN "delete_concurrent"
                       ELSE "update_status_concurrent",
                user |-> NULL, id |-> c.found.id, key |-> NoKey,
                res |-> IF c.found.id = 0 THEN "none" ELSE "ok",
                note |-> "none", was |-> WasOf(cur)]
    /\ calls' = [calls EXCEPT ![i] = Idle]
    /\ UNCHANGED <<plat, nextId, out, issued>>

NextVerifyDelete ==
    \/ \E a \in CreateArgs(plat) : StoreCreate(a, St_ENABLED)
    \/ \E i \in Procs, id \in 1..MaxRows : ConcurrentRead(i, id)
    \/ \E i \in Procs : ConcurrentCommit(i)

SpecVerifyDelete == Init /\ [][NextVerifyDelete]_vars

----------------------------------------------------------------------------
(* Router handlers.  A handler is an operator from the table and the        *)
(* request to the table it leaves and the response it gives:                *)
(*   rows, nid : the table and the AUTO_INCREMENT counter afterwards        *)
(*   res       : HTTP status, or the redirect the handler answers with      *)
(*   id        : the row the request addressed or stored (0: none)          *)
(*   out       : the platform calls it made and the channels it listed      *)

ReplyOut(rows, nid, res, id, o) ==
    [rows |-> rows, nid |-> nid, res |-> res, id |-> id, out |-> o]

Reply(rows, nid, res, id) == ReplyOut(rows, nid, res, id, NoOut)

Sent(calls_made) == [NoOut EXCEPT !.sent = calls_made]

\* What the platform does during one callback: the code exchange fails
\* with an API error, the token response lacks a mandatory field, the
\* identity of the platform user cannot be resolved, some call raises an
\* exception that is not an API error, or everything succeeds.
OAuthOutcomes == {"ok", "exchange_failed", "missing_data", "identity_failed", "exception"}
SendOutcomes == {"ok", "api_error", "exception"}
TeardownOutcomes == {"ok", "api_error", "exception"}

\* The state parameter "<user id>:<uuid4>" of GET /oauth/url.  The callback
\* takes state.split(":")[0] as the DRR user id, so a state may name a user
\* that does not exist and may lack the part after the colon.
Nonces == {"n1"}
StateUsers == Users \cup {"nobody"}
OAuthStates == [user : StateUsers, nonce : Nonces \cup {NULL}]

\* users.id foreign key of the integration tables: an INSERT for a user id
\* that is not in the users table raises IntegrityError
ForeignKeyViolation(u) == u \notin Users

\* GET /slack/oauth/callback: the OAuth state names the DRR user; the row
\* stored is the DM row (channel_id = slack_user_id) with status ENABLED.
\* Without authed_user in the token response the channel id is None and the
\* INSERT violates NOT NULL.
slack_oauth_callback(rows, nid, u, g, x, outcome) ==
    IF outcome = "exception" THEN Reply(rows, nid, "redirect_unexpected_error", 0)
    ELSE IF outcome = "exchange_failed" THEN Reply(rows, nid, "redirect_oauth_failed", 0)
    ELSE IF outcome = "missing_data" THEN Reply(rows, nid, "redirect_missing_data", 0)
    ELSE IF outcome = "identity_failed" \/ ForeignKeyViolation(u)
    THEN Reply(rows, nid, "redirect_database_error", 0)
    ELSE LET r == create_integration("slack", rows, nid, u, g, x, x, NULL, St_ENABLED) IN
         IF r.res = "raised"
         THEN Reply(rows, nid, "redirect_database_error", 0)
         ELSE Reply(r.rows, r.nid, "redirect_success", r.id)

\* a Discord callback that lets the exception of the persistence step escape
discord_oauth_callback_uncaught(rows, nid, u, x, outcome) ==
    IF outcome = "exception" THEN Reply(rows, nid, "redirect_unexpected_error", 0)
    ELSE IF outcome \in {"exchange_failed", "identity_failed"}
    THEN Reply(rows, nid, "redirect_oauth_failed", 0)
    ELSE IF outcome = "missing_data" THEN Reply(rows, nid, "redirect_missing_data", 0)
    ELSE Reply(rows, nid, "500", 0)

\* GET /discord/oauth/callback: the call of create_discord_integration passes
\* owned_guild_ids, a keyword the function does not take, so the call raises
\* TypeError before it touches the session and the handler redirects with
\* error=database_error.
discord_oauth_callback(rows, nid, u, x, outcome) ==
    IF outcome = "exception" THEN Reply(rows, nid, "redirect_unexpected_error", 0)
    ELSE IF outcome \in {"exchange_failed", "identity_failed"}
    THEN Reply(rows, nid, "redirect_oauth_failed", 0)
    ELSE IF outcome = "missing_data" THEN Reply(rows, nid, "redirect_missing_data", 0)
    ELSE Reply(rows, nid, "redirect_database_error", 0)

\* GET /teams/oauth/callback: stores the DM row (no team, no channel)
teams_oauth_callback(rows, nid, u, x, outcome) ==
    IF outcome = "exception" THEN Reply(rows, nid, "redirect_unexpected_error", 0)
    ELSE IF outcome \in {"exchange_failed", "identity_failed"}
    THEN Reply(rows, nid, "redirect_oauth_failed", 0)
    ELSE IF outcome = "missing_data" THEN Reply(rows, nid, "redirect_missing_data", 0)
    ELSE IF ForeignKeyViolation(u) THEN Reply(rows, nid, "redirect_database_error", 0)
    ELSE LET r == create_integration("teams", rows, nid, u, NULL, NULL, x, NULL, St_ENABLED) IN
         IF r.res = "raised"
         THEN Reply(rows, nid, "redirect_database_error", 0)
         ELSE Reply(r.rows, r.nid, "redirect_success", r.id)

oauth_callback(p, rows, nid, u, g, x, outcome) ==
    CASE p = "slack"   -> slack_oauth_callback(rows, nid, u, g, x, outcome)
      [] p = "discord" -> discord_oauth_callback(rows, nid, u, x, outcome)
      [] p = "teams"   -> teams_oauth_callback(rows, nid, u, x, outcome)

\* a create_channel_integration that stores the channel row as ACTIVE
create_channel_integration_active(p, rows, nid, base, g, c) ==
    create_integration(p, rows, nid, base.user,
                       IF p = "slack" THEN base.container ELSE g,
                       c, base.ext, NULL, St_ACTIVE)

\* create_channel_integration: create_*_integration with the owner and the
\* credentials of the base row, status ENABLED.  Slack takes the workspace
\* from the base row, Discord and Teams take guild / team from the request.
create_channel_integration(p, rows, nid, base, g, c) ==
    create_integration(p, rows, nid, base.user,
                       IF p = "slack" THEN base.container ELSE g,
                       c, base.ext, NULL, St_ENABLED)

\* get_dm_integration (Slack): the user's non-deleted row whose channel is
\* the Slack user id, optionally of one workspace
get_dm_integration(rows, u, g) ==
    ScalarOneOrNone({r \in rows : /\ r.user = u
                                  /\ r.channel = r.ext
                                  /\ ~r.deleted
                                  /\ (g # NULL => r.container = g)})

\* get_first_by_user (Discord, Teams): scalar_one_or_none over all the
\* user's non-deleted rows
get_first_by_user(rows, u) ==
    ScalarOneOrNone({r \in rows : r.user = u /\ ~r.deleted})

\* Discord add-channels: the user's non-deleted rows without a guild; the
\* handler takes the first of them in created_at order
DiscordDmRows(rows, u) ==
    {r \in rows : r.user = u /\ ~r.deleted /\ r.container = NULL}

\* The base rows POST /add-channels can work from ({}: answer 404)
BaseRows(p, rows, u, g) ==
    CASE p = "slack"   -> {r \in {get_dm_integration(rows, u, g)} : r.id # 0}
      [] p = "discord" -> DiscordDmRows(rows, u)
      [] p = "teams"   -> {r \in {get_first_by_user(rows, u)} : r.id # 0}

\* the loop of add_selected_channels: one create_channel_integration per
\* selection, a selection whose create raises is recorded as failed
RECURSIVE AddChannelsLoop(_, _, _, _, _)
AddChannelsLoop(p, rows, nid, base, sels) ==
    IF sels = <<>>
    THEN Reply(rows, nid, "200", base.id)
    ELSE LET r == create_channel_integration(p, rows, nid, base,
                                             Head(sels).container, Head(sels).channel)
         IN AddChannelsLoop(p, r.rows, r.nid, base, Tail(sels))

\* channel selections a client can post
Selections(p) ==
    IF p = "slack"
    THEN {[container |-> NULL, channel |-> c] : c \in Channels \cup ExtIds}
    ELSE {[container |-> g, channel |-> c] : g \in Containers, c \in Channels}

SelectionLists(p) ==
    {<<s>> : s \in Selections(p)} \cup {<<s, t>> : s \in Selections(p), t \in Selections(p)}

\* POST /slack/events.  The signature is verified first (401), then
\* url_verification is answered.  member_joined_channel for the bot of the
\* workspace clones one of the workspace's non-deleted rows (integrations[0],
\* the query has no ORDER BY: base is any of them) onto the channel; a
\* failure of the create is logged and the answer stays 200.  All rows of a
\* workspace carry the one bot user of the installed app, so the event names
\* either that bot (for_bot) or some other member.
SlackEventTypes == {"url_verification", "member_joined_channel", "other"}

get_by_workspace_and_bot_user(rows, g, for_bot) ==
    {r \in rows : r.container = g /\ for_bot /\ ~r.deleted}

\* a Slack events handler that answers url_verification before it looks
\* at the signature
slack_events_challenge_first(rows, nid, sig_ok, type, base, c) ==
    IF type = "url_verification" THEN Reply(rows, nid, "200_challenge", 0)
    ELSE IF ~sig_ok THEN Reply(rows, nid, "401", 0)
    ELSE IF type = "member_joined_channel" /\ base.id # 0
    THEN LET r == create_channel_integration("slack", rows, nid, base, base.container, c)
         IN Reply(r.rows, r.nid, "200", r.id)
    ELSE Reply(rows, nid, "200", 0)

slack_events(rows, nid, sig_ok, type, base, c) ==
    IF ~sig_ok THEN Reply(rows, nid, "401", 0)
    ELSE IF type = "url_verification" THEN Reply(rows, nid, "200_challenge", 0)
    ELSE IF type = "member_joined_channel" /\ base.id # 0
    THEN LET r == create_channel_integration("slack", rows, nid, base, base.container, c)
         IN Reply(r.rows, r.nid, "200", r.id)
    ELSE Reply(rows, nid, "200", 0)

\* POST /discord/events.  url_verification is answered before the signature
\* is looked at.  A signed member_joined_channel callback calls
\* discord_service.get_by_workspace_and_bot_user, which the Discord service
\* does not define: AttributeError, unhandled, HTTP 500.
discord_events(rows, nid, sig_ok, type) ==
    IF type = "url_verification" THEN Reply(rows, nid, "200_challenge", 0)
    ELSE IF ~sig_ok THEN Reply(rows, nid, "401", 0)
    ELSE IF type = "member_joined_channel" THEN Reply(rows, nid, "500", 0)
    ELSE Reply(rows, nid, "200", 0)

\* POST /teams/bot.  A body that is not JSON is answered 400 and an activity
\* without serviceUrl, conversation id or sender 200, both before the
\* Authorization header is looked at; then verify_bot_jwt (401).  An
\* authenticated activity calls teams_service.get_any_by_teams_user_id,
\* which the Teams service does not define: AttributeError outside any try,
\* HTTP 500, and no conversation reference is stored.
BotBodies == {"invalid_json", "missing_fields", "activity"}

bot_webhook(rows, nid, body, jwt_ok) ==
    IF body = "invalid_json" THEN Reply(rows, nid, "400", 0)
    ELSE IF body = "missing_fields" THEN Reply(rows, nid, "200_missing_fields", 0)
    ELSE IF ~jwt_ok THEN Reply(rows, nid, "401", 0)
    ELSE Reply(rows, nid, "500", 0)

\* POST /telegram/webhook (the route registered first; it checks no secret)
\* always answers 200 {"ok": true}.  res carries the message the bot sends.

\* rows a raw scalar_one_or_none() is run on: 0 (no match), the id of the
\* single match, or -1 when MultipleResultsFound is raised
RawScalarOneOrNone(S) ==
    IF S = {} THEN 0
    ELSE IF Cardinality(S) = 1 THEN (CHOOSE r \in S : TRUE).id
    ELSE -1

\* handle_stop_command: the non-deleted private row of the chat
handle_stop_command(rows, nid, chat) ==
    LET found == RawScalarOneOrNone({r \in rows : /\ r.channel = chat
                                                  /\ r.kind = "private"
                                                  /\ ~r.deleted})
    IN IF found = -1 THEN Reply(rows, nid, "200_nothing", 0)
       ELSE IF found = 0
       THEN ReplyOut(rows, nid, "200_no_integration", 0, Sent({"send_message"}))
       ELSE ReplyOut(delete("telegram", rows, found).rows, nid, "200_goodbye", found,
                     Sent({"send_message"}))

\* handle_message, private chat (chat id = Telegram user id x):
\* "/stop", "/start user_<u>" (parts[1] = u), "/start" without payload, or
\* any other text
TelegramTexts == {"stop", "start_user", "start", "other"}

handle_message(rows, nid, x, text, u) ==
    IF text = "stop" THEN handle_stop_command(rows, nid, x)
    ELSE IF text = "other" THEN Reply(rows, nid, "200_nothing", 0)
    ELSE IF text = "start" THEN ReplyOut(rows, nid, "200_help", 0, Sent({"send_message"}))
    ELSE LET r == create_integration("telegram", rows, nid, u, NULL, x, x,
                                     "private", St_ENABLED)
         IN ReplyOut(r.rows, r.nid, "200_connected", r.id, Sent({"send_message"}))

\* get_user_id_by_telegram_user: owner of the non-deleted private row of
\* the Telegram user (NULL if none or several)
get_user_id_by_telegram_user(rows, x) ==
    ScalarOneOrNone({r \in rows : r.ext = x /\ r.kind = "private" /\ ~r.deleted}).user

\* handle_bot_added_to_chat: group chat c, added by Telegram user x
handle_bot_added_to_chat(rows, nid, c, x) ==
    LET drr_user_id == get_user_id_by_telegram_user(rows, x) IN
    IF drr_user_id = NULL
    THEN ReplyOut(rows, nid, "200_instructions", 0, Sent({"send_message"}))
    ELSE LET r == create_integration("telegram", rows, nid, drr_user_id, NULL, c, NULL,
                                     "group", St_ENABLED)
         IN ReplyOut(r.rows, r.nid, "200_group_connected", r.id, Sent({"send_message"}))

\* handle_bot_removed_from_chat: the non-deleted row of the chat
handle_bot_removed_from_chat(rows, nid, c) ==
    LET found == RawScalarOneOrNone({r \in rows : r.channel = c /\ ~r.deleted})
    IN IF found < 1 THEN Reply(rows, nid, "200_nothing", 0)
       ELSE Reply(delete("telegram", rows, found).rows, nid, "200_removed", found)

\* The two handlers registered for POST /telegram/webhook.  The router
\* dispatches a request to the first route that matches, which is the one
\* registered first (telegram.py:335): it does not read the
\* X-Telegram-Bot-Api-Secret-Token header and passes the update to the
\* handle_* functions.  The second (telegram.py:730) checks the secret and
\* only acknowledges; no request reaches it.
telegram_webhook_checked(rows, nid, secret_ok) ==
    IF secret_ok THEN Reply(rows, nid, "200", 0) ELSE Reply(rows, nid, "401", 0)

telegram_webhook(secret_ok, handled) == handled

\* POST /integrations/{id}/test (Slack, Discord, Telegram): what the handler
\* writes to the table when the send had the given outcome -- nothing

\* a test handler that activates the row when the message went out
test_connection_activates(rows, id, sent) ==
    IF sent = "ok" THEN update_status(rows, id, St_ACTIVE).rows ELSE rows

test_connection_rows(rows, id, sent) == rows

\* a handler that skips the comparison of the row's owner with the caller
IsOwner_any(integration, caller) == TRUE

\* integration.user_id != current_user.id raises HTTP 403
IsOwner(integration, caller) == integration.user = caller

test_connection(rows, nid, caller, id, sent) ==
    LET integration == get_by_id(rows, id) IN
    IF integration.id = 0 THEN Reply(rows, nid, "404", id)
    ELSE IF ~IsOwner(integration, caller) THEN Reply(rows, nid, "403", id)
    ELSE ReplyOut(test_connection_rows(rows, id, sent), nid,
                  CASE sent = "ok"        -> "200_success"
                    [] sent = "api_error" -> "200_failed"
                    [] sent = "exception" -> "500",
                  id, Sent({"send_message"}))

\* POST /integrations/{id}/verify (Slack, Discord: activate_integration;
\* Telegram: verify_integration, which does not look at what update_status
\* returned)
activate_integration(p, rows, nid, caller, id) ==
    LET integration == get_by_id(rows, id) IN
    IF integration.id = 0 THEN Reply(rows, nid, "404", id)
    ELSE IF ~IsOwner(integration, caller) THEN Reply(rows, nid, "403", id)
    ELSE LET r == update_status(rows, id, St_ACTIVE) IN
         Reply(r.rows, nid, IF r.ok \/ p = "telegram" THEN "200" ELSE "500", id)

\* GET /verify?token=... (Slack, Discord).  A token is what jwt.decode makes
\* of it: valid (signature and expiry accepted) or not, and the claims
\* purpose, integration_id (0: absent), user_id (NULL: absent).
Purposes == {"slack_verify", "discord_verify", "other"}

Tokens ==
    [valid : BOOLEAN, purpose : Purposes, integration_id : 0..MaxRows,
     user_id : Users \cup {NULL}]

ExpectedPurpose(p) == IF p = "slack" THEN "slack_verify" ELSE "discord_verify"

\* a verify handler that does not compare the purpose claim
PurposeAccepted_any(p, t) == TRUE

PurposeAccepted(p, t) == t.purpose = ExpectedPurpose(p)

\* a verify handler that does not compare the token's user with the owner
OwnerAccepted_any(integration, t) == TRUE

OwnerAccepted(integration, t) == integration.user = t.user_id

verify_integration_link(p, rows, nid, t) ==
    IF ~t.valid THEN Reply(rows, nid, "redirect_verify_failed", t.integration_id)
    ELSE IF ~PurposeAccepted(p, t) THEN Reply(rows, nid, "400", t.integration_id)
    ELSE IF t.integration_id = 0 \/ t.user_id = NULL
    THEN Reply(rows, nid, "400", t.integration_id)
    ELSE LET integration == get_by_id(rows, t.integration_id) IN
         IF integration.id = 0 THEN Reply(rows, nid, "404", t.integration_id)
         ELSE IF ~OwnerAccepted(integration, t) THEN Reply(rows, nid, "403", t.integration_id)
         ELSE LET r == update_status(rows, t.integration_id, St_ACTIVE) IN
              Reply(r.rows, nid,
                    IF r.ok THEN "redirect_verified" ELSE "redirect_verify_failed",
                    t.integration_id)

\* DELETE /integrations/{id}.  Whether the platform teardown lets the
\* handler go on to the local soft delete:
\*   Slack    uninstall / revoke inside try ... except Exception: always
\*   Discord  the teardown reads integration.bot_token, which the Discord
\*            row does not have; the AttributeError is caught by
\*            except Exception: always
\*   Telegram send_message / leave_chat inside try ... except
\*            TelegramAPIError: any other exception leaves the handler
\*            through the outer except Exception (HTTP 500)
\*   Teams    no teardown

\* every teardown exception swallowed
TeardownSwallowed_all(p, teardown) == TRUE

TeardownSwallowed(p, teardown) ==
    p = "telegram" => teardown # "exception"

\* the platform calls the teardown of a row makes: Slack uninstalls the app
\* with the row's bot token, Telegram says goodbye in a private chat and
\* leaves a group; Discord fails before any call and Teams has no teardown
TeardownCalls(p, integration) ==
    CASE p = "slack"    -> {"uninstall_app"}
      [] p = "telegram" -> IF integration.kind = "private" THEN {"send_message"}
                           ELSE {"leave_chat"}
      [] OTHER          -> {}

delete_integration(p, rows, nid, caller, id, teardown) ==
    LET integration == get_by_id(rows, id) IN
    IF integration.id = 0 THEN Reply(rows, nid, "404", id)
    ELSE IF ~IsOwner(integration, caller) THEN Reply(rows, nid, "403", id)
    ELSE IF ~TeardownSwallowed(p, teardown)
    THEN ReplyOut(rows, nid, "500", id, Sent(TeardownCalls(p, integration)))
    ELSE LET r == delete(p, rows, id) IN
         ReplyOut(r.rows, nid, IF r.ok THEN "200" ELSE "500", id,
                  Sent(TeardownCalls(p, integration)))

\* update_channel_for_user (Discord): point the user's single non-deleted
\* row at a server channel; a unique-key clash rolls back and returns None
update_channel_for_user(rows, u, g, c) ==
    LET integ == get_first_by_user(rows, u) IN
    IF integ.id = 0 \/ UniqueViolation("discord", rows, integ.id, u, g, c)
    THEN [rows |-> rows, id |-> 0]
    ELSE [rows |-> (rows \ {integ}) \cup {[integ EXCEPT !.container = g, !.channel = c]},
          id   |-> integ.id]

\* POST /discord/channels/select
select_server_channel(rows, nid, caller, g, c, sent) ==
    IF sent = "api_error" THEN Reply(rows, nid, "400", 0)
    ELSE IF sent = "exception" THEN Reply(rows, nid, "500", 0)
    ELSE LET r == update_channel_for_user(rows, caller, g, c) IN
         Reply(r.rows, nid, IF r.id = 0 THEN "404" ELSE "200", r.id)

\* Channel discovery.  What the platform reports is an input: the channels
\* the user created, the channels the bot is a member of, the channels of
\* the user's teams.

\* (container, channel) keys of the user's non-deleted channel rows
IntegratedChannels(rows, u) ==
    {<<r.container, r.channel>> :
        r \in {q \in rows : q.user = u /\ ~q.deleted /\ q.container # NULL /\ q.channel # NULL}}

\* GET /slack/available-channels: the channels created by the user that the
\* bot can see, of the workspace of the user's DM row.  The handler does not
\* look at the user's channel rows.
get_available_channels(rows, nid, caller, g, created, bot_channels, outcome) ==
    LET dm_integration == get_dm_integration(rows, caller, g) IN
    IF dm_integration.id = 0 THEN Reply(rows, nid, "200_no_integration", 0)
    ELSE IF outcome = "api_error"
    THEN ReplyOut(rows, nid, "500", dm_integration.id, Sent({"list_channels"}))
    ELSE IF created = {}
    THEN ReplyOut(rows, nid, "200_no_created_channels", dm_integration.id,
                  Sent({"list_channels"}))
    ELSE IF created \cap bot_channels = {}
    THEN ReplyOut(rows, nid, "200_bot_not_installed", dm_integration.id,
                  Sent({"list_channels"}))
    ELSE ReplyOut(rows, nid, "200", dm_integration.id,
                  [NoOut EXCEPT !.sent = {"list_channels"},
                                !.listed = {<<dm_integration.container, c>> :
                                               c \in created \cap bot_channels}])

\* GET /discord/available-guilds: the handler starts with
\* discord_service.get_dm_integration, which the Discord service does not
\* define; the AttributeError is turned into HTTP 500 by except Exception.
get_available_guilds(rows, nid, caller, report) ==
    ReplyOut(rows, nid, "500", 0, [NoOut EXCEPT !.reported = report])

\* Discord channel types: 0 text, 2 voice, 5 announcement
ChannelTypes == {0, 2, 5}

GuildReports ==
    [user_guilds : SUBSET Containers, bot_guilds : SUBSET Containers,
     channels : {{}} \cup {{[guild |-> g, id |-> c, type |-> t]} :
                               g \in Containers, c \in Channels, t \in ChannelTypes}]

\* GET /teams/available-teams and GET /teams/owned-teams: the channels of
\* the reported teams minus the user's non-deleted channel rows
get_available_teams(rows, nid, caller, reported, outcome) ==
    LET dm_integration == get_first_by_user(rows, caller) IN
    IF dm_integration.id = 0 THEN Reply(rows, nid, "404", 0)
    ELSE IF outcome = "api_error"
    THEN ReplyOut(rows, nid, "502", dm_integration.id, Sent({"list_channels"}))
    ELSE ReplyOut(rows, nid, "200", dm_integration.id,
                  [NoOut EXCEPT !.sent = {"list_channels"},
                                !.listed = reported \ IntegratedChannels(rows, caller)])

get_owned_teams(rows, nid, caller, reported, outcome) ==
    get_available_teams(rows, nid, caller, reported, outcome)

\* what a platform can report for the discovery of one request
ReportedChannels == SUBSET Channels
ReportedTeamChannels == SUBSET (Containers \X Channels)
ListOutcomes == {"ok", "api_error"}

\* POST /add-channels (Slack, Discord, Teams): 404 without a base row
add_selected_channels(p, rows, nid, base, sels) ==
    IF base.id = 0 THEN Reply(rows, nid, "404", 0)
    ELSE AddChannelsLoop(p, rows, nid, base, sels)

----------------------------------------------------------------------------
(* The service: requests handled one at a time                             *)

\* a handler has answered: commit its table, record the call.  auth says
\* whether the request carried a good signature, secret or JWT (NULL for
\* the endpoints behind the session login).
RespondKey(op, user, note, key, r) ==
    /\ r.nid <= MaxRows + 1
    /\ db' = r.rows
    /\ nextId' = r.nid
    /\ last' = [op |-> op, user |-> user, id |-> r.id, key |-> key,
                res |-> r.res, note |-> note, was |-> WasOf(RowById(db, r.id))]
    /\ out' = r.out
    /\ UNCHANGED <<plat, calls, issued>>

RespondAuth(op, user, note, auth, r) == RespondKey(op, user, note, <<auth, NULL, NULL>>, r)

Respond(op, user, note, r) == RespondAuth(op, user, note, NULL, r)

AuthOf(ok) == IF ok THEN "auth_ok" ELSE "auth_failed"

\* GET /oauth/url: hands out the state "<caller>:<uuid4>"; nothing is stored
GetOAuthUrl(caller, n) ==
    /\ plat \in {"slack", "discord", "teams"}
    /\ issued' = issued \cup {[user |-> caller, nonce |-> n]}
    /\ last' = [op |-> "oauth_url", user |-> caller, id |-> 0, key |-> <<NULL, n, NULL>>,
                res |-> "200", note |-> "none", was |-> "absent"]
    /\ out' = NoOut
    /\ UNCHANGED <<plat, db, nextId, calls>>

OAuthCallback(state, g, x, outcome) ==
    /\ plat \in {"slack", "discord", "teams"}
    /\ RespondKey("oauth_callback", state.user, outcome, <<NULL, state.nonce, NULL>>,
                  oauth_callback(plat, db, nextId, state.user, g, x, outcome))

AddChannels(caller, g, sels) ==
    /\ plat \in {"slack", "discord", "teams"}
    /\ \E base \in (IF BaseRows(plat, db, caller, g) = {} THEN {NoRow}
                    ELSE BaseRows(plat, db, caller, g)) :
          Respond("add_channels", caller, "none",
                  add_selected_channels(plat, db, nextId, base, sels))

SlackEvents(sig_ok, type, g, for_bot, c) ==
    /\ plat = "slack"
    /\ \E base \in (IF get_by_workspace_and_bot_user(db, g, for_bot) = {} THEN {NoRow}
                    ELSE get_by_workspace_and_bot_user(db, g, for_bot)) :
          RespondAuth("slack_events", NULL, type, AuthOf(sig_ok),
                      slack_events(db, nextId, sig_ok, type, base, c))

DiscordEvents(sig_ok, type) ==
    /\ plat = "discord"
    /\ RespondAuth("discord_events", NULL, type, AuthOf(sig_ok),
                   discord_events(db, nextId, sig_ok, type))

TeamsBot(body, jwt_ok) ==
    /\ plat = "teams"
    /\ RespondAuth("teams_bot", NULL, body, AuthOf(jwt_ok),
                   bot_webhook(db, nextId, body, jwt_ok))

TelegramMessage(secret_ok, x, text, u) ==
    /\ plat = "telegram"
    /\ RespondKey("telegram_message", u, text, <<AuthOf(secret_ok), x, NULL>>,
                  telegram_webhook(secret_ok, handle_message(db, nextId, x, text, u)))

TelegramBotAdded(secret_ok, c, x) ==
    /\ plat = "telegram"
    /\ RespondAuth("telegram_bot_added", NULL, "none", AuthOf(secret_ok),
                   telegram_webhook(secret_ok, handle_bot_added_to_chat(db, nextId, c, x)))

TelegramBotRemoved(secret_ok, c) ==
    /\ plat = "telegram"
    /\ RespondKey("telegram_bot_removed", NULL, "none", <<AuthOf(secret_ok), c, NULL>>,
                  telegram_webhook(secret_ok, handle_bot_removed_from_chat(db, nextId, c)))

TestMessage(caller, id, sent) ==
    /\ plat \in {"slack", "discord", "telegram"}
    /\ Respond("test", caller, sent, test_connection(db, nextId, caller, id, sent))

VerifyPost(caller, id) ==
    /\ plat \in {"slack", "discord", "telegram"}
    /\ Respond("verify_post", caller, "none", activate_integration(plat, db, nextId, caller, id))

VerifyLink(t) ==
    /\ plat \in {"slack", "discord"}
    /\ Respond("verify_link", t.user_id, IF t.valid THEN t.purpose ELSE "invalid",
               verify_integration_link(plat, db, nextId, t))

DeleteIntegration(caller, id, teardown) ==
    /\ Respond("delete_integration", caller, teardown,
               delete_integration(plat, db, nextId, caller, id, teardown))

SelectServerChannel(caller, g, c, sent) ==
    /\ plat = "discord"
    /\ Respond("select_channel", caller, sent,
               select_server_channel(db, nextId, caller, g, c, sent))

AvailableChannels(caller, g, created, bot_channels, outcome) ==
    /\ plat = "slack"
    /\ Respond("available_channels", caller, outcome,
               get_available_channels(db, nextId, caller, g, created, bot_channels, outcome))

AvailableGuilds(caller, report) ==
    /\ plat = "discord"
    /\ Respond("available_channels", caller, "none",
               get_available_guilds(db, nextId, caller, report))

AvailableTeams(caller, reported, outcome, owned) ==
    /\ plat = "teams"
    /\ Respond("available_channels", caller, outcome,
               IF owned THEN get_owned_teams(db, nextId, caller, reported, outcome)
               ELSE get_available_teams(db, nextId, caller, reported, outcome))

Next ==
    \/ \E state \in OAuthStates, g \in Containers, x \in ExtIds, o \in OAuthOutcomes :
          OAuthCallback(state, g, x, o)
    \/ \E caller \in Users, g \in Containers \cup {NULL}, sels \in SelectionLists(plat) :
          AddChannels(caller, g, sels)
    \/ \E sig_ok \in BOOLEAN, type \in SlackEventTypes, g \in Containers,
          for_bot \in BOOLEAN, c \in Channels :
          SlackEvents(sig_ok, type, g, for_bot, c)
    \/ \E sig_ok \in BOOLEAN, type \in SlackEventTypes : DiscordEvents(sig_ok, type)
    \/ \E body \in BotBodies, jwt_ok \in BOOLEAN : TeamsBot(body, jwt_ok)
    \/ \E secret_ok \in BOOLEAN, x \in ExtIds, text \in TelegramTexts, u \in Users :
          TelegramMessage(secret_ok, x, text, u)
    \/ \E secret_ok \in BOOLEAN, c \in Channels, x \in ExtIds :
          TelegramBotAdded(secret_ok, c, x)
    \/ \E secret_ok \in BOOLEAN, c \in Channels \cup ExtIds : TelegramBotRemoved(secret_ok, c)
    \/ \E caller \in Users, id \in 1..MaxRows, sent \in SendOutcomes :
          TestMessage(caller, id, sent)
    \/ \E caller \in Users, id \in 1..MaxRows : VerifyPost(caller, id)
    \/ \E t \in Tokens : VerifyLink(t)
    \/ \E caller \in Users, id \in 1..MaxRows, teardown \in TeardownOutcomes :
          DeleteIntegration(caller, id, teardown)
    \/ \E caller \in Users, g \in Containers, c \in Channels, sent \in SendOutcomes :
          SelectServerChannel(caller, g, c, sent)
    \/ \E caller \in Users, g \in Containers \cup {NULL}, created \in ReportedChannels,
          bot_channels \in ReportedChannels, o \in ListOutcomes :
          AvailableChannels(caller, g, created, bot_channels, o)
    \/ \E caller \in Users, report \in GuildReports : AvailableGuilds(caller, report)
    \/ \E caller \in Users, reported \in ReportedTeamChannels, o \in ListOutcomes,
          owned \in BOOLEAN :
          AvailableTeams(caller, reported, o, owned)

Spec == Init /\ [][Next]_vars

\* The OAuth dance on its own: states handed out, callbacks, and the
\* requests that bring a base row to the other conditions a callback can
\* find it in (ACTIVE, soft-deleted).
NextOAuth ==
    \/ \E caller \in Users, n \in Nonces : GetOAuthUrl(caller, n)
    \/ \E state \in OAuthStates, g \in Containers, x \in ExtIds, o \in OAuthOutcomes :
          OAuthCallback(state, g, x, o)
    \/ \E caller \in Users, id \in 1..MaxRows : VerifyPost(caller, id)
    \/ \E caller \in Users, id \in 1..MaxRows, teardown \in TeardownOutcomes :
          DeleteIntegration(caller, id, teardown)

SpecOAuth == Init /\ [][NextOAuth]_vars

----------------------------------------------------------------------------
(* Credentials of cloned channel rows (Slack, Teams).  Here a row carries   *)
(* the token columns as well, in the field creds; the Discord table stores  *)
(* no token and the Telegram table has no channel clones.                   *)

MaxCloneRows == 3

\* the platform accounts a user can connect with
CloneExtIds == {"x1", "x2"}

\* token columns of a Slack row; the user token is absent when the token
\* response carries no authed_user.access_token
SlackCreds == [bot_token : {"b1", "b2"}, user_token : {"t1", NULL}]

\* token columns of a Teams row
TeamsCreds ==
    [access_token : {"a1", "a2"}, refresh_token : {"r1", NULL},
     token_expires_at : {"e1"}]

CredsOf(p) == IF p = "slack" THEN SlackCreds ELSE TeamsCreds

\* The token assignments of the "if existing:" branch.  Slack assigns
\* bot_token always and user_token only when the new one is truthy; Teams
\* assigns the three token columns always.
AssignCreds(p, old, new) ==
    IF p = "slack"
    THEN [bot_token  |-> new.bot_token,
          user_token |-> IF new.user_token # NULL THEN new.user_token ELSE old.user_token]
    ELSE new

\* create_slack_integration / create_teams_integration with their token
\* arguments: the row create_integration stores, with the token columns
create_with_credentials(p, rows, nid, u, g, c, ext, creds) ==
    LET r == create_integration(p, rows, nid, u, g, c, ext, NULL, St_ENABLED)
        stored == RowById(r.rows, r.id)
    IN IF r.res = "raised" THEN r
       ELSE [r EXCEPT !.rows =
               (r.rows \ {stored}) \cup
               {IF r.res = "updated"
                THEN [stored EXCEPT !.creds = AssignCreds(p, stored.creds, creds)]
                ELSE stored @@ [creds |-> creds]}]

\* create_channel_integration with the token columns of the base row
clone_channel(p, rows, nid, base, g, c) ==
    create_with_credentials(p, rows, nid, base.user,
                            IF p = "slack" THEN base.container ELSE g,
                            c, base.ext, base.creds)

CloneRespond(op, base, r) ==
    /\ r.nid <= MaxCloneRows + 1
    /\ db' = r.rows
    /\ nextId' = r.nid
    /\ last' = [op |-> op, user |-> base.user, id |-> r.id, key |-> <<"base", base.id, NULL>>,
                res |-> r.res, note |-> "none", was |-> WasOf(RowById(db, r.id))]
    /\ out' = NoOut
    /\ UNCHANGED <<plat, calls, issued>>

\* OAuth callback with a successful exchange: stores the base row with the
\* tokens of the response
ConnectWithCredentials(u, g, x, creds) ==
    /\ plat \in {"slack", "teams"}
    /\ CloneRespond("oauth_callback", NoRow,
                    IF plat = "slack"
                    THEN create_with_credentials(plat, db, nextId, u, g, x, x, creds)
                    ELSE create_with_credentials(plat, db, nextId, u, NULL, NULL, x, creds))

\* POST /add-channels with one selected channel
AddChannelWithCredentials(caller, g, sel) ==
    /\ plat \in {"slack", "teams"}
    /\ \E base \in BaseRows(plat, db, caller, g) :
          CloneRespond("add_channels", base,
                       clone_channel(plat, db, nextId, base, sel.container, sel.channel))

\* POST /slack/events, signed member_joined_channel of the workspace's bot
MemberJoinedWithCredentials(g, c) ==
    /\ plat = "slack"
    /\ \E base \in get_by_workspace_and_bot_user(db, g, TRUE) :
          CloneRespond("slack_events", base, clone_channel(plat, db, nextId, base, g, c))

\* delete of the store, so that a clone can find a soft-deleted row
DeleteWithCredentials(id) ==
    /\ plat \in {"slack", "teams"}
    /\ CloneRespond("delete", NoRow,
                    [rows |-> delete(plat, db, id).rows, nid |-> nextId, id |-> id,
                     res |-> IF delete(plat, db, id).ok THEN "ok" ELSE "none"])

NextClone ==
    \/ \E u \in Users, g \in Containers, x \in CloneExtIds, creds \in CredsOf(plat) :
          ConnectWithCredentials(u, g, x, creds)
    \/ \E caller \in Users, g \in Containers \cup {NULL}, sel \in Selections(plat) :
          AddChannelWithCredentials(caller, g, sel)
    \/ \E g \in Containers, c \in Channels : MemberJoinedWithCredentials(g, c)
    \/ \E id \in 1..MaxCloneRows : DeleteWithCredentials(id)

SpecClone == Init /\ [][NextClone]_vars

----------------------------------------------------------------------------
(* Request signatures (Slack events, Discord events, Discord interactions) *)

\* the replay window of the three verifiers, seconds
ReplayWindow == 60 * 5

\* The clock is read in half seconds, so that time.time() has a fraction;
\* the timestamp header is a string that is a decimal integer of seconds or
\* is not.  A missing timestamp header defaults to "0".
ClockHalves == {2000, 2001}
TimestampHeaders ==
    {[num |-> TRUE, val |-> v] : v \in {0, 699, 700, 701, 1000, 1299, 1300, 1301}}
    \cup {[num |-> FALSE, val |-> 0]}
SignatureHeaders == {"correct", "wrong", "missing"}
Verifiers == {"slack_signature", "discord_signature", "discord_interaction"}

\* int(time.time())
IntTime(now_half) == now_half \div 2

Abs(n) == IF n < 0 THEN 0 - n ELSE n

\* distance between the clock and the timestamp header, in half seconds
SkewHalves(now_half, ts) == now_half - 2 * ts.val

\* _verify_slack_signature: int(ts) raising -> False; more than the window
\* between int(time.time()) and int(ts) -> False; else the HMAC comparison
verify_slack_signature(now_half, ts, sig) ==
    IF ~ts.num THEN FALSE
    ELSE IF Abs(IntTime(now_half) - ts.val) > ReplayWindow THEN FALSE
    ELSE sig = "correct"

\* _verify_discord_signature: the same code with the Discord header names
verify_discord_signature(now_half, ts, sig) ==
    IF ~ts.num THEN FALSE
    ELSE IF Abs(IntTime(now_half) - ts.val) > ReplayWindow THEN FALSE
    ELSE sig = "correct"

\* _verify_discord_interaction: an empty signature header -> False, then
\* the same window, then the Ed25519 verification
verify_discord_interaction(now_half, ts, sig) ==
    IF sig = "missing" THEN FALSE
    ELSE IF ~ts.num THEN FALSE
    ELSE IF Abs(IntTime(now_half) - ts.val) > ReplayWindow THEN FALSE
    ELSE sig = "correct"

verify_signature(v, now_half, ts, sig) ==
    CASE v = "slack_signature"     -> verify_slack_signature(now_half, ts, sig)
      [] v = "discord_signature"   -> verify_discord_signature(now_half, ts, sig)
      [] v = "discord_interaction" -> verify_discord_interaction(now_half, ts, sig)

\* one run of a verifier on a request
VerifySignature(v, now_half, ts, sig) ==
    /\ plat = (IF v = "slack_signature" THEN "slack" ELSE "discord")
    /\ last' = [op |-> "verify_signature", user |-> NULL, id |-> 0,
                key |-> <<v, IF ts.num THEN "integer" ELSE "not_integer", NULL>>,
                res |-> IF verify_signature(v, now_half, ts, sig) THEN "true" ELSE "false",
                note |-> sig, was |-> "absent"]
    /\ out' = [NoOut EXCEPT !.skew = SkewHalves(now_half, ts)]
    /\ UNCHANGED <<plat, db, nextId, calls, issued>>

NextSig ==
    \E v \in Verifiers, now_half \in ClockHalves, ts \in TimestampHeaders,
       sig \in SignatureHeaders : VerifySignature(v, now_half, ts, sig)

SpecSig == Init /\ [][NextSig]_vars

----------------------------------------------------------------------------
(* Properties                                                              *)

\* C1 (store operations one at a time): every create call leaves exactly one
\* non-deleted row for its (user, container, channel) tuple, and a create for
\* a tuple that already has a row updates that row and inserts nothing.
C1_CreateTwiceOneRow ==
    [][ last'.op = "create" =>
          /\ Cardinality(LiveRowsOf(db', last'.key)) = 1
          /\ (RowsOf(db, last'.key) # {} =>
                /\ Ids(db') = Ids(db)
                /\ nextId' = nextId
                /\ last'.res = "updated"
                /\ last'.id \in Ids(RowsOf(db, last'.key))) ]_vars

\* a second create for a tuple has just updated the tuple's live row
C1_Witness ==
    /\ last.op = "create"
    /\ last.res = "updated"
    /\ last.was \in Statuses
    /\ Cardinality(LiveRowsOf(db, last.key)) = 1

\* C2 (store operations one at a time): create for a tuple whose row is
\* soft-deleted clears the marker of that very row and returns it; no id is
\* added and the tuple still has one row in total.
C2_CreateReactivates ==
    [][ last'.op = "create" =>
          \A r \in RowsOf(db, last'.key) :
              r.deleted =>
                /\ last'.id = r.id
                /\ ~RowById(db', r.id).deleted
                /\ Ids(db') = Ids(db)
                /\ Cardinality(RowsOf(db', last'.key)) = 1 ]_vars

\* a create has just brought a soft-deleted row back
C2_Witness ==
    /\ last.op = "create"
    /\ last.was = "deleted"
    /\ last.res = "updated"
    /\ ~RowById(db, last.id).deleted

\* C3 (two concurrent create calls): once no call is in flight, no tuple has
\* more than one non-deleted row.
C3_RaceAtMostOneLiveRow ==
    (\A i \in Procs : calls[i].pc = "idle") =>
        \A r1, r2 \in db :
            (/\ ~r1.deleted /\ ~r2.deleted
             /\ r1.user = r2.user /\ r1.container = r2.container
             /\ r1.channel = r2.channel) => r1.id = r2.id

\* handlers that end in create_*_integration
CreateOps ==
    {"oauth_callback", "add_channels", "slack_events", "telegram_message",
     "telegram_bot_added"}

VerifyOps == {"verify_post", "verify_link"}

Rank(status) ==
    CASE status = St_DISABLED -> 0
      [] status = St_ENABLED  -> 1
      [] status = St_ACTIVE   -> 2

\* C4 as stated (service): a row that carries the soft-delete marker keeps
\* the marker and its status through every request.
C4_DeletedIsAbsorbing ==
    [][ \A r \in db : r.deleted =>
            /\ RowById(db', r.id).deleted
            /\ RowById(db', r.id).status = r.status ]_vars

\* C4 amended (service): a row that carries the soft-delete marker is left
\* exactly as it is by every request, except by a handler that ends in
\* create_*_integration for the row's tuple, which clears the marker and
\* sets the status to ENABLED on that same row.
C4_DeletedChangedOnlyByCreate ==
    [][ \A r \in db : r.deleted =>
            \/ r \in db'
            \/ /\ last'.op \in CreateOps
               /\ RowById(db', r.id).user = r.user
               /\ RowById(db', r.id).container = r.container
               /\ RowById(db', r.id).channel = r.channel
               /\ ~RowById(db', r.id).deleted
               /\ RowById(db', r.id).status = St_ENABLED ]_vars

\* a handler ending in create_*_integration has just brought back a
\* soft-deleted row, now ENABLED
C4_Witness ==
    /\ last.op \in CreateOps
    /\ last.was = "deleted"
    /\ ~RowById(db, last.id).deleted
    /\ RowById(db, last.id).status = St_ENABLED

\* C5 (service): a row that is not soft-deleted before and after a request
\* never has its status moved backwards along DISABLED -> ENABLED -> ACTIVE;
\* in particular an ACTIVE row stays ACTIVE.
C5_StatusOnlyForward ==
    [][ \A r \in db : \A r2 \in db' :
            (r2.id = r.id /\ ~r.deleted /\ ~r2.deleted) =>
                Rank(r2.status) >= Rank(r.status) ]_vars

\* C6 (service): whenever a request leaves a row ACTIVE that was not ACTIVE
\* before it (or did not exist), the request was a verify call.
C6_ActiveOnlyByVerify ==
    [][ \A r2 \in db' :
            (r2.status = St_ACTIVE /\ RowById(db, r2.id).status # St_ACTIVE) =>
                last'.op \in VerifyOps ]_vars

\* the signed link has just moved an ENABLED row to ACTIVE
C6_Witness ==
    /\ last.op = "verify_link"
    /\ last.res = "redirect_verified"
    /\ last.was = St_ENABLED
    /\ RowById(db, last.id).status = St_ACTIVE

\* C7 (service): a test-message request leaves the table as it was, hence
\* the status and the soft-delete marker of the addressed row, whatever the
\* outcome of the send.
C7_TestLeavesRowUnchanged ==
    [][ last'.op = "test" =>
            /\ db' = db
            /\ RowById(db', last'.id).status = RowById(db, last'.id).status
            /\ RowById(db', last'.id).deleted = RowById(db, last'.id).deleted ]_vars

\* the owner's test message went out and the row is still ENABLED
C7_Witness ==
    /\ last.op = "test"
    /\ last.res = "200_success"
    /\ last.was = St_ENABLED
    /\ RowById(db, last.id).user = last.user
    /\ RowById(db, last.id).status = St_ENABLED
    /\ ~RowById(db, last.id).deleted

\* C8 (service, Slack and Discord): a valid token whose user_id is not the
\* owner of the row it names never changes the table and is answered with
\* an error status; when the token has the expected purpose, carries a
\* user_id and the row is loaded (not soft-deleted), the answer is 403.
C8_TokenUserMismatchRejected ==
    [][ (/\ last'.op = "verify_link"
         /\ last'.note # "invalid"
         /\ RowById(db, last'.id).id # 0
         /\ RowById(db, last'.id).user # last'.user) =>
            /\ db' = db
            /\ last'.res \in {"400", "403", "404"}
            /\ (/\ last'.note = ExpectedPurpose(plat)
                /\ last'.user # NULL
                /\ ~RowById(db, last'.id).deleted) => last'.res = "403" ]_vars

\* a valid token of the expected purpose, naming an ENABLED row of another
\* user, has just been answered 403 and the row is still ENABLED
C8_Witness ==
    /\ last.op = "verify_link"
    /\ last.note = ExpectedPurpose(plat)
    /\ last.res = "403"
    /\ last.user \in Users
    /\ RowById(db, last.id).id # 0
    /\ RowById(db, last.id).user # last.user
    /\ last.was = St_ENABLED
    /\ RowById(db, last.id).status = St_ENABLED

\* C9 (service, Slack and Discord): a valid token whose purpose is not the
\* platform's constant is answered 400 and the table is left as it was,
\* whatever integration_id and user_id the token carries.
C9_WrongPurposeRejected ==
    [][ (/\ last'.op = "verify_link"
         /\ last'.note \in Purposes \ {ExpectedPurpose(plat)}) =>
            /\ last'.res = "400"
            /\ db' = db ]_vars

\* a valid token of a foreign purpose that names an ENABLED row and its
\* owner has just been answered 400, the row is still ENABLED
C9_Witness ==
    /\ last.op = "verify_link"
    /\ last.note \in Purposes \ {ExpectedPurpose(plat)}
    /\ last.res = "400"
    /\ RowById(db, last.id).id # 0
    /\ RowById(db, last.id).user = last.user
    /\ RowById(db, last.id).status = St_ENABLED
    /\ ~RowById(db, last.id).deleted

\* C10 (service): a DELETE request by the owner of a non-deleted row leaves
\* that row soft-deleted, whatever the outcome of the remote teardown.
C10_DeleteAlwaysSoftDeletes ==
    [][ (/\ last'.op = "delete_integration"
         /\ get_by_id(db, last'.id).id # 0
         /\ get_by_id(db, last'.id).user = last'.user) =>
            RowById(db', last'.id).deleted ]_vars

\* C11 (service): the channels a discovery request has just returned contain
\* no (container, channel) for which the calling user has a non-deleted row.
C11_DiscoveryExcludesIntegrated ==
    last.op = "available_channels" =>
        out.listed \cap IntegratedChannels(db, last.user) = {}


\* C12 (signature verifiers): a verifier has answered false whenever the
\* timestamp header was more than 300 seconds away from the clock, in either
\* direction and whatever the signature; with a timestamp exactly 300
\* seconds away and the correct signature it has answered true.
C12_ReplayWindow ==
    (last.op = "verify_signature" /\ last.key[2] = "integer") =>
        /\ Abs(out.skew) > 2 * ReplayWindow => last.res = "false"
        /\ (Abs(out.skew) = 2 * ReplayWindow /\ last.note = "correct") => last.res = "true"



\* C13 (service; Slack events, Discord events, Teams bot): a request that
\* failed signature, replay-window or JWT verification is answered 401 and
\* leaves the table as it was.
C13_UnauthenticatedRejected ==
    [][ (/\ last'.op \in {"slack_events", "discord_events", "teams_bot"}
         /\ last'.key[1] = "auth_failed") =>
            /\ last'.res = "401"
            /\ db' = db ]_vars


TelegramOps == {"telegram_message", "telegram_bot_added", "telegram_bot_removed"}

\* C14 (service, Telegram): an update posted to /telegram/webhook without
\* the correct secret header leaves the table as it was and sends no message.
C14_TelegramSecretRequired ==
    [][ (last'.op \in TelegramOps /\ last'.key[1] = "auth_failed") =>
            /\ db' = db
            /\ out'.sent = {} ]_vars


WebhookOps == {"slack_events", "discord_events", "teams_bot"} \cup TelegramOps

\* responses that acknowledge a webhook request (HTTP 200)
Acknowledgments ==
    {"200", "200_challenge", "200_nothing", "200_no_integration", "200_goodbye",
     "200_help", "200_connected", "200_instructions", "200_group_connected",
     "200_removed", "200_missing_fields"}

\* C15 (service): a webhook request is answered with an acknowledgment
\* unless it failed authentication, and then it is answered 401.
C15_WebhooksAcknowledge ==
    [][ last'.op \in WebhookOps =>
            \/ last'.res \in Acknowledgments
            \/ (last'.key[1] = "auth_failed" /\ last'.res = "401") ]_vars


\* what an OAuth callback may answer: a redirect to the frontend carrying
\* success=true or error=<code>
OAuthRedirects ==
    {"redirect_success", "redirect_oauth_failed", "redirect_missing_data",
     "redirect_database_error", "redirect_unexpected_error"}

\* C16 (service; Slack, Discord, Teams): every OAuth callback ends in a
\* redirect with success=true or error=<code>, whatever the outcome of the
\* token exchange, the identity lookup and the persistence.
C16_CallbackAlwaysRedirects ==
    [][ last'.op = "oauth_callback" => last'.res \in OAuthRedirects ]_vars

\* a callback whose persistence step raised has been answered with the
\* database_error redirect
C16_Witness ==
    /\ last.op = "oauth_callback"
    /\ last.note = "ok"
    /\ last.res = "redirect_database_error"

\* C17 (service; Slack, Discord, Teams): a callback for an existing user
\* whose exchange and identity resolution succeeded with all fields present
\* is answered with the success redirect, and a success redirect is only
\* given when the base row named in it is stored, non-deleted and ENABLED.
C17_CallbackPersistsEnabled ==
    [][ last'.op = "oauth_callback" =>
            /\ (last'.note = "ok" /\ last'.user \in Users) => last'.res = "redirect_success"
            /\ last'.res = "redirect_success" =>
                  /\ get_by_id(db', last'.id).user = last'.user
                  /\ get_by_id(db', last'.id).status = St_ENABLED ]_vars

\* C18 (OAuth dance): a callback changes the table only when the state it
\* carries was handed out earlier by GET /oauth/url for that user.
C18_CallbackValidatesState ==
    [][ (last'.op = "oauth_callback" /\ db' # db) =>
            [user |-> last'.user, nonce |-> last'.key[2]] \in issued ]_vars

\* the requests on /integrations/{id} that need the caller to own the row
OwnerOps == {"test", "verify_post", "delete_integration"}

\* C19 (Slack, Discord, Telegram, Teams): test, verify and delete of a
\* non-deleted row by a user who does not own it are answered 403, leave
\* every row as it was and make no call to the platform.
C19_NonOwnerForbidden ==
    [][ (/\ last'.op \in OwnerOps
         /\ get_by_id(db, last'.id).id # 0
         /\ get_by_id(db, last'.id).user # last'.user)
        => (last'.res = "403" /\ db' = db /\ out'.sent = {}) ]_vars

\* a delete by a non-owner of an existing row has been refused
C19_Witness ==
    /\ last.op = "delete_integration"
    /\ last.res = "403"
    /\ get_by_id(db, last.id).id # 0
    /\ get_by_id(db, last.id).user # last.user

\* the non-deleted private rows of a Telegram chat
PrivateRowsOfChat(rows, chat) ==
    {r \in rows : r.channel = chat /\ r.kind = "private" /\ ~r.deleted}

\* C20 (Telegram): "/start user_<U1>" in the private chat of T1 leaves a
\* non-deleted private row (U1, T1's chat, ENABLED); "/stop" from a chat that
\* has such a row soft-deletes it and sends the goodbye message, and
\* afterwards the chat has no non-deleted row.
C20_StartThenStop ==
    [][ last'.op = "telegram_message" =>
          /\ last'.note = "start_user" =>
                \E r \in PrivateRowsOfChat(db', last'.key[2]) :
                    r.user = last'.user /\ r.status = St_ENABLED
          /\ (last'.note = "stop" /\ PrivateRowsOfChat(db, last'.key[2]) # {}) =>
                /\ last'.res = "200_goodbye"
                /\ out'.sent = {"send_message"}
                /\ PrivateRowsOfChat(db', last'.key[2]) = {} ]_vars

\* the (guild, channel) pairs a guild discovery has to list: text and
\* announcement channels of the guilds both the user and the bot are in,
\* without the channels the user has a non-deleted row for
EligibleGuildChannels(rows, u, report) ==
    {<<ch.guild, ch.id>> :
        ch \in {q \in report.channels :
                  /\ q.guild \in report.user_guilds \cap report.bot_guilds
                  /\ q.type \in {0, 5}
                  /\ <<q.guild, q.id>> \notin IntegratedChannels(rows, u)}}

\* C21 (Discord): GET /discord/available-guilds of a connected user answers
\* with exactly the text and announcement channels, not yet integrated by
\* the user, of the guilds that are both in the user's stored guild list and
\* in the bot's guild list.
C21_AvailableGuildsExact ==
    (/\ plat = "discord"
     /\ last.op = "available_channels"
     /\ \E r \in db : r.user = last.user /\ ~r.deleted)
    => (/\ last.res = "200"
        /\ out.listed = EligibleGuildChannels(db, last.user, out.reported))

\* C22 (Discord, Teams): get_first_by_user returns an integration of the
\* user whenever the user has a non-deleted row, however many; a Teams user
\* with such a row is not answered 404 by the discovery and add-channels
\* handlers.
C22_FirstByUserFindsARow ==
    plat \in {"discord", "teams"} =>
       /\ \A u \in Users :
             (\E r \in db : r.user = u /\ ~r.deleted) => get_first_by_user(db, u).user = u
       /\ (/\ plat = "teams"
           /\ last.op \in {"add_channels", "available_channels"}
           /\ \E r \in db : r.user = last.user /\ ~r.deleted)
          => last.res # "404"

\* C23 (store, all platforms): a soft-deleted row has status DISABLED.
C23_DeletedIsDisabled ==
    \A r \in db : r.deleted => r.status = St_DISABLED

\* C24 (store, concurrent verify and delete): no row is both soft-deleted
\* and ACTIVE, whatever the order of the two calls' read and commit steps.
C24_NeverDeletedAndActive ==
    \A r \in db : ~(r.deleted /\ r.status = St_ACTIVE)

\* some request the service accepts leaves row id non-deleted and ACTIVE
CanBecomeActive(id) ==
    ENABLED (Next /\ get_by_id(db', id).status = St_ACTIVE)

\* C25 (all platforms): for every non-deleted ENABLED row there is a request
\* that moves it to ACTIVE.
C25_EnabledCanBeVerified ==
    \A r \in db : (~r.deleted /\ r.status = St_ENABLED) => CanBecomeActive(r.id)

\* no request has ever made a Teams row ACTIVE
TeamsNeverActive ==
    plat = "teams" => \A r \in db : r.status # St_ACTIVE

\* C26 (Telegram): after a bot-removed-from-chat update for chat C has been
\* handled, no non-deleted row has channel id C.
C26_BotRemovedClearsChat ==
    [][ last'.op = "telegram_bot_removed" =>
            \A r \in db' : r.channel = last'.key[2] => r.deleted ]_vars

\* C27 (OAuth callbacks): a callback whose state has no part after a colon
\* is answered with an error redirect and changes no row.
C27_MalformedStateRejected ==
    [][ (last'.op = "oauth_callback" /\ last'.key[2] = NULL) =>
            /\ last'.res \in OAuthRedirects \ {"redirect_success"}
            /\ db' = db ]_vars

C29_DeletedRowNotMutated ==
    [][ (/\ last'.op \in {"update_status", "delete"}
         /\ RowById(db, last'.id).id # 0
         /\ RowById(db, last'.id).deleted)
        => (db' = db /\ last'.res = "none") ]_vars

\* update_status has been called on a soft-deleted row and returned None
C29_Witness ==
    /\ last.op = "update_status"
    /\ last.was = "deleted"
    /\ last.res = "none"
    /\ RowById(db, last.id).deleted

\* C30 (Slack, Teams): the channel row an add-channels request or a
\* member_joined_channel event stores has, right after the operation, the
\* owner and the token columns of the row it was cloned from, also when the
\* row for that channel existed before.
C30_CloneInheritsCredentials ==
    [][ (last'.op \in {"add_channels", "slack_events"} /\ last'.res # "raised") =>
            /\ RowById(db', last'.id).user = RowById(db, last'.key[2]).user
            /\ RowById(db', last'.id).creds = RowById(db, last'.key[2]).creds ]_vars

=============================================================================
